---- MODULE Spec2Model ----
(***************************************************************************)
(* Model of reflexion_mirror_app.py: the narrative, compressed-summary,    *)
(* Reflexion-DNA and theme-extraction functions, and the values they are   *)
(* called with.  Python str values are TLA+ strings; the str methods the   *)
(* code uses (lower, strip, title, slicing, "in", join) are computed       *)
(* character by character.  Only ASCII text is modelled: the section       *)
(* brackets and the catalog symbols of the source, which are not ASCII,    *)
(* are written with ASCII stand-ins.                                       *)
(***************************************************************************)
EXTENDS Integers, Sequences, FiniteSets, TLC

VARIABLES
    ARCHETYPES,     \* the module-level catalog dict
    collapse,       \* arguments of the call under way
    build,
    now,
    archetype,
    pc,             \* the last function that returned
    sections,       \* generate_narrative's local list
    narrative,      \* generate_narrative's return value
    dna,            \* generate_reflexion_dna's return value
    compressed,     \* generate_compressed_summary's return value
    text,           \* argument of a helper called on its own
    themes,         \* extract_themes' return value
    edit,           \* the change made to a phase between two hash calls
    hash0,          \* generate_transformation_hash before the change
    hash1,          \* generate_transformation_hash after the change
    combined0,      \* its local "combined" before the change
    combined1,      \* its local "combined" after the change
    reflection_id,  \* arguments of generate_share_code
    timestamp,
    share_code,     \* generate_share_code's return value
    keyword_text,   \* extract_keywords' return value
    log,            \* the invocations made so far, each with what it returned
    requests,       \* the /mirror requests under way
    archive,        \* the files of the directory Collapse_Archive
    db,             \* the rows of the table reflections
    lookup          \* the last response of /api/reflexion-dna/<reflection_id>

vars == <<ARCHETYPES, collapse, build, now, archetype, pc, sections, narrative,
          dna, compressed, text, themes, edit, hash0, hash1, combined0, combined1,
          reflection_id, timestamp, share_code, keyword_text, log, requests, archive, db,
          lookup>>

share_vars == <<reflection_id, timestamp, share_code>>
mirror_vars == <<requests, archive, db, lookup>>

---------------------------------------------------------------------------
(* Python str methods *)

Char(s, i) == SubSeq(s, i, i)

UpperLetters == "ABCDEFGHIJKLMNOPQRSTUVWXYZ"
LowerLetters == "abcdefghijklmnopqrstuvwxyz"
Whitespace == {" ", "\t", "\n"}

\* position of a one-character string in an alphabet, 0 when absent
IndexIn(alphabet, c) ==
    IF \E i \in 1..Len(alphabet) : Char(alphabet, i) = c
    THEN CHOOSE i \in 1..Len(alphabet) : Char(alphabet, i) = c
    ELSE 0

\* the cased characters and their counterparts
LowerOf == [c \in {Char(UpperLetters, i) : i \in 1..26} |->
               Char(LowerLetters, IndexIn(UpperLetters, c))]
UpperOf == [c \in {Char(LowerLetters, i) : i \in 1..26} |->
               Char(UpperLetters, IndexIn(LowerLetters, c))]

lower_char(c) == IF c \in DOMAIN LowerOf THEN LowerOf[c] ELSE c
upper_char(c) == IF c \in DOMAIN UpperOf THEN UpperOf[c] ELSE c
is_cased(c) == c \in DOMAIN LowerOf \/ c \in DOMAIN UpperOf

\* the characters i..j of s, each mapped by lower(), upper() or title();
\* the range is halved so that the evaluation stays shallow on long strings
title_char(s, i) ==
    LET c == Char(s, i)
    IN  IF ~is_cased(c) THEN c
        ELSE IF i > 1 /\ is_cased(Char(s, i - 1)) THEN lower_char(c)
        ELSE upper_char(c)

RECURSIVE map_chars(_, _, _, _)
map_chars(method, s, i, j) ==
    IF i > j THEN ""
    ELSE IF i = j
         THEN (IF method = "lower" THEN lower_char(Char(s, i))
               ELSE IF method = "upper" THEN upper_char(Char(s, i))
               ELSE title_char(s, i))
    ELSE LET m == (i + j) \div 2
         IN  map_chars(method, s, i, m) \o map_chars(method, s, m + 1, j)

\* s.lower()
str_lower(s) == map_chars("lower", s, 1, Len(s))

\* s.upper()
str_upper(s) == map_chars("upper", s, 1, Len(s))

\* s.title(): a cased character is upper-cased when it follows an uncased
\* one (or starts the string) and lower-cased when it follows a cased one
str_title(s) == map_chars("title", s, 1, Len(s))

RECURSIVE str_lstrip(_)
str_lstrip(s) ==
    IF s # "" /\ Char(s, 1) \in Whitespace
    THEN str_lstrip(SubSeq(s, 2, Len(s)))
    ELSE s

RECURSIVE str_rstrip(_)
str_rstrip(s) ==
    IF s # "" /\ Char(s, Len(s)) \in Whitespace
    THEN str_rstrip(SubSeq(s, 1, Len(s) - 1))
    ELSE s

\* s.strip()
str_strip(s) == str_rstrip(str_lstrip(s))

\* sub in s
str_in(sub, s) ==
    \E i \in 0..(Len(s) - Len(sub)) : SubSeq(s, i + 1, i + Len(sub)) = sub

\* s[:n]
str_prefix(s, n) == SubSeq(s, 1, IF Len(s) < n THEN Len(s) ELSE n)

\* sep.join(parts)
RECURSIVE str_join(_, _)
str_join(sep, parts) ==
    IF Len(parts) = 0 THEN ""
    ELSE IF Len(parts) = 1 THEN parts[1]
    ELSE parts[1] \o sep \o str_join(sep, Tail(parts))

\* Python's None, and the truth value of a str
None == [None |-> TRUE]
truthy(s) == s # ""

\* d.get(key): the entry, or None
dict_get(d, key) == IF key \in DOMAIN d THEN d[key] ELSE None

---------------------------------------------------------------------------
(* The archetype catalog *)

ArchetypeCatalog ==
    [phoenix |->
        [description |-> "Rising from ashes, transformed by fire",
         symbol |-> "fire",
         quote |-> "What is to give light must endure burning. - Viktor Frankl",
         color |-> "#ff6b6b"],
     alchemist |->
        [description |-> "Transmuting pain into wisdom",
         symbol |-> "alembic",
         quote |-> "One does not become enlightened by imagining figures of light, but by making the darkness conscious. - Carl Jung",
         color |-> "#4ecdc4"],
     warrior |->
        [description |-> "Forged in battle, tempered by trials",
         symbol |-> "swords",
         quote |-> "The wound is the place where the Light enters you. - Rumi",
         color |-> "#ff9f43"],
     sage |->
        [description |-> "Seeking truth through suffering",
         symbol |-> "owl",
         quote |-> "The only true wisdom is in knowing you know nothing. - Socrates",
         color |-> "#a8e6cf"],
     wanderer |->
        [description |-> "Lost to find, broken to become whole",
         symbol |-> "compass",
         quote |-> "Not all those who wander are lost. - J.R.R. Tolkien",
         color |-> "#c7ceea"],
     architect |->
        [description |-> "Building from ruins, designing destiny",
         symbol |-> "temple",
         quote |-> "In the depth of winter, I finally learned that there was in me an invincible summer. - Albert Camus",
         color |-> "#b2bec3"],
     mystic |->
        [description |-> "Embracing the void to find the light",
         symbol |-> "crystal ball",
         quote |-> "The cave you fear to enter holds the treasure you seek. - Joseph Campbell",
         color |-> "#dfe6e9"],
     rebel |->
        [description |-> "Destroying to create, refusing to conform",
         symbol |-> "lightning",
         quote |-> "You must be ready to burn yourself in your own flame; how could you rise anew if you have not first become ashes? - Nietzsche",
         color |-> "#fd79a8"]]

---------------------------------------------------------------------------
(* generate_narrative *)

COLLAPSE_HEADER == "[ COLLAPSE ]"
COMPRESSION_HEADER == "[ COMPRESSION ]"
CONVERGENCE_HEADER == "[ CONVERGENCE ]"
ARCHETYPE_HEADER == "[ ARCHETYPE ]"

COLLAPSE_LEAD == "In the depths of dissolution, you faced the void:"
COMPRESSION_LEAD == "From the fragments, you forged something new:"
CONVERGENCE_LEAD == "Now, you stand transformed:"
CRYSTALLIZING == "Your archetype is still crystallizing in the cosmic forge"

collapse_section(c) ==
    COLLAPSE_HEADER \o "\n" \o COLLAPSE_LEAD \o "\n" \o str_strip(c)

\* the COMPRESSION section with .strip() left out
compression_section_unstripped(b) ==
    "\n" \o COMPRESSION_HEADER \o "\n" \o COMPRESSION_LEAD \o "\n" \o b

compression_section(b) ==
    "\n" \o COMPRESSION_HEADER \o "\n" \o COMPRESSION_LEAD \o "\n" \o str_strip(b)

convergence_section(n) ==
    "\n" \o CONVERGENCE_HEADER \o "\n" \o CONVERGENCE_LEAD \o "\n" \o str_strip(n)

\* the archetype block looking the key up as given, .lower() left out
archetype_sections_exact_key(a) ==
    IF truthy(a)
    THEN LET arch_data == dict_get(ARCHETYPES, a)
         IN  IF arch_data # None
             THEN << "\n" \o ARCHETYPE_HEADER \o "\nYou embody the " \o str_title(a)
                     \o ": " \o arch_data.description \o "\n\n" \o arch_data.quote >>
             ELSE << "\n" \o ARCHETYPE_HEADER \o "\n" \o CRYSTALLIZING >>
    ELSE << >>

\* the archetype block with the else branch left out
archetype_sections_known_only(a) ==
    IF truthy(a)
    THEN LET arch_data == dict_get(ARCHETYPES, str_lower(a))
         IN  IF arch_data # None
             THEN << "\n" \o ARCHETYPE_HEADER \o "\nYou embody the " \o str_title(a)
                     \o ": " \o arch_data.description \o "\n\n" \o arch_data.quote >>
             ELSE << >>
    ELSE << >>

\* the "if archetype:" block: the sections it appends
archetype_sections(a) ==
    IF truthy(a)
    THEN LET arch_data == dict_get(ARCHETYPES, str_lower(a))
         IN  IF arch_data # None
             THEN << "\n" \o ARCHETYPE_HEADER \o "\nYou embody the " \o str_title(a)
                     \o ": " \o arch_data.description \o "\n\n" \o arch_data.quote >>
             ELSE << "\n" \o ARCHETYPE_HEADER \o "\n" \o CRYSTALLIZING >>
    ELSE << >>

\* the list "sections" when the function returns
narrative_sections(c, b, n, a) ==
    << collapse_section(c), compression_section(b), convergence_section(n) >>
    \o archetype_sections(a)

generate_narrative(c, b, n, a) == str_join("\n\n", narrative_sections(c, b, n, a))

---------------------------------------------------------------------------
(* extract_core_theme, extract_themes *)

COLLAPSE_ROOTS == <<"control", "identity", "trust", "purpose", "belonging", "certainty">>
EMERGENT_TRAITS == <<"resilience", "wisdom", "compassion", "strength", "clarity", "freedom">>
FINAL_STATES == <<"authentic", "integrated", "empowered", "aligned", "whole", "awakened">>

\* the "for theme in themes" loop from its i-th element on
RECURSIVE core_theme_from(_, _, _)
core_theme_from(text_lower, theme_list, i) ==
    IF i > Len(theme_list) THEN theme_list[1]
    ELSE IF str_in(theme_list[i], text_lower) THEN theme_list[i]
    ELSE core_theme_from(text_lower, theme_list, i + 1)

\* the loop without its early return: the last listed theme found wins
RECURSIVE last_theme_from(_, _, _, _)
last_theme_from(text_lower, theme_list, i, found) ==
    IF i > Len(theme_list) THEN found
    ELSE last_theme_from(text_lower, theme_list, i + 1,
                         IF str_in(theme_list[i], text_lower) THEN theme_list[i] ELSE found)

extract_core_theme_last_listed(t, theme_list) ==
    last_theme_from(str_lower(t), theme_list, 1, theme_list[1])

\* the function ending in "return ''" for "return themes[0]"
RECURSIVE core_theme_or_empty(_, _, _)
core_theme_or_empty(text_lower, theme_list, i) ==
    IF i > Len(theme_list) THEN ""
    ELSE IF str_in(theme_list[i], text_lower) THEN theme_list[i]
    ELSE core_theme_or_empty(text_lower, theme_list, i + 1)

extract_core_theme_no_default(t, theme_list) ==
    core_theme_or_empty(str_lower(t), theme_list, 1)

extract_core_theme(t, theme_list) == core_theme_from(str_lower(t), theme_list, 1)

\* the dict theme_words, in insertion order
theme_words ==
    << [theme |-> "loss", keywords |-> <<"lost", "gone", "ended", "died">>],
       [theme |-> "betrayal", keywords |-> <<"betrayed", "trust", "lied", "deceived">>],
       [theme |-> "failure", keywords |-> <<"failed", "mistake", "wrong", "error">>],
       [theme |-> "awakening", keywords |-> <<"realized", "understood", "saw", "discovered">>],
       [theme |-> "rebuilding", keywords |-> <<"built", "created", "started", "began">>],
       [theme |-> "transformation", keywords |-> <<"changed", "became", "transformed", "evolved">>],
       [theme |-> "freedom", keywords |-> <<"free", "liberated", "released", "escaped">>],
       [theme |-> "integration", keywords |-> <<"whole", "complete", "integrated", "unified">>] >>

\* any(keyword in text_lower for keyword in keywords)
any_keyword_in(keywords, text_lower) ==
    \E k \in 1..Len(keywords) : str_in(keywords[k], text_lower)

\* the "for theme, keywords in theme_words.items()" loop from its i-th item on
RECURSIVE themes_from(_, _, _)
themes_from(text_lower, i, acc) ==
    IF i > Len(theme_words) THEN acc
    ELSE themes_from(text_lower, i + 1,
                     IF any_keyword_in(theme_words[i].keywords, text_lower)
                     THEN Append(acc, theme_words[i].theme)
                     ELSE acc)

\* seq[:n]
list_prefix(seq, n) == SubSeq(seq, 1, IF Len(seq) < n THEN Len(seq) ELSE n)

MAX_THEMES == 3

\* extract_themes with the [:3] slice left out
extract_themes_unsliced(t) == themes_from(str_lower(t), 1, << >>)

extract_themes(t) == list_prefix(themes_from(str_lower(t), 1, << >>), MAX_THEMES)

---------------------------------------------------------------------------
(* extract_keywords and the phase matchers *)

\* s.split(): the maximal runs of non-whitespace characters
RECURSIVE split_from(_, _, _, _)
split_from(s, i, cur, acc) ==
    IF i > Len(s) THEN (IF cur = "" THEN acc ELSE Append(acc, cur))
    ELSE IF Char(s, i) \in Whitespace
         THEN split_from(s, i + 1, "", IF cur = "" THEN acc ELSE Append(acc, cur))
         ELSE split_from(s, i + 1, cur \o Char(s, i), acc)

str_split(s) == split_from(s, 1, "", << >>)

stop_words ==
    {"the", "a", "an", "and", "or", "but", "in", "on", "at", "to", "for", "of",
     "with", "by", "from", "was", "were", "been", "be", "have", "has", "had",
     "do", "does", "did", "will", "would", "could", "should", "may", "might",
     "must", "can", "is", "are", "am", "it", "i", "you", "he", "she", "they",
     "we", "me", "him", "her", "them", "my", "your", "his", "its", "our", "their"}

MIN_KEYWORD_LEN == 3
MAX_KEYWORDS == 3

\* the filter with "len(w) >= 3" for "len(w) > 3"
is_keyword_from_three(w) == w \notin stop_words /\ Len(w) >= MIN_KEYWORD_LEN

is_keyword(w) == w \notin stop_words /\ Len(w) > MIN_KEYWORD_LEN

extract_keywords(t) ==
    LET words == str_split(str_lower(t))
        keywords == SelectSeq(words, is_keyword)
    IN  IF Len(keywords) > 0
        THEN str_join(" ", list_prefix(keywords, MAX_KEYWORDS))
        ELSE "the unnamed"

\* the "for pattern in patterns" loop of the three matchers from its i-th pattern on
RECURSIVE pattern_from(_, _, _, _)
pattern_from(patterns, t, default, i) ==
    IF i > Len(patterns) THEN default
    ELSE IF str_in(patterns[i], str_lower(t)) THEN patterns[i]
    ELSE pattern_from(patterns, t, default, i + 1)

LOST_PATTERNS == <<"identity", "certainty", "control", "belonging", "purpose", "self">>
EMERGENT_PATTERNS ==
    <<"strength", "wisdom", "resilience", "understanding", "compassion", "power", "clarity">>
ESSENTIAL_PATTERNS ==
    <<"authenticity", "wholeness", "integration", "transformation", "truth", "freedom">>

\* the matcher comparing with the text as given, .lower() left out
RECURSIVE pattern_from_as_given(_, _, _, _)
pattern_from_as_given(patterns, t, default, i) ==
    IF i > Len(patterns) THEN default
    ELSE IF str_in(patterns[i], t) THEN patterns[i]
    ELSE pattern_from_as_given(patterns, t, default, i + 1)

get_lost_element_as_given(collapse_text) ==
    pattern_from_as_given(LOST_PATTERNS, collapse_text, "stability", 1)

get_lost_element(collapse_text) == pattern_from(LOST_PATTERNS, collapse_text, "stability", 1)
get_emergent_quality(build_text) ==
    pattern_from(EMERGENT_PATTERNS, build_text, "new foundations", 1)
get_essential_nature(now_text) ==
    pattern_from(ESSENTIAL_PATTERNS, now_text, "irreducible essence", 1)

---------------------------------------------------------------------------
(* generate_compressed_summary *)

\* the dict literal "compressed"
phase_summaries(c, b, n) ==
    [Collapse |-> "The dissolution began when " \o extract_keywords(c)
                  \o " shattered the illusion of " \o get_lost_element(c),
     Compression |-> "Through " \o extract_keywords(b)
                     \o ", the fragments crystallized into " \o get_emergent_quality(b),
     Convergence |-> "Now standing as " \o extract_keywords(n)
                     \o ", embodying the truth of " \o get_essential_nature(n)]

\* "if archetype and archetype in ARCHETYPES"
archetype_available(a) == truthy(a) /\ a \in DOMAIN ARCHETYPES

generate_compressed_summary(c, b, n, a) ==
    IF archetype_available(a)
    THEN phase_summaries(c, b, n)
         @@ ("Archetypal_Pattern" :>
                ("Walking the " \o a \o "'s path: " \o ARCHETYPES[a].description))
    ELSE phase_summaries(c, b, n)

---------------------------------------------------------------------------
(* hashlib.sha256 (FIPS 180-4).  A 32-bit word is a pair <<high, low>> of    *)
(* 16-bit halves, so that no intermediate value leaves the integers TLC      *)
(* computes with.                                                            *)

\* one boolean function of three bits applied to the n low bits of a, b, c
RECURSIVE bitwise(_, _, _, _, _)
bitwise(kind, a, b, c, n) ==
    IF n = 0 THEN 0
    ELSE LET x == a % 2
             y == b % 2
             z == c % 2
             r == IF kind = "xor" THEN (x + y + z) % 2
                  ELSE IF kind = "ch" THEN (IF x = 1 THEN y ELSE z)
                  ELSE (IF x + y + z >= 2 THEN 1 ELSE 0)
         IN  r + (2 * bitwise(kind, a \div 2, b \div 2, c \div 2, n - 1))

\* the three functions of SHA-256 on 4-bit operands:
\* x xor y xor z, Ch(x, y, z) = (x and y) xor (not x and z), and
\* Maj(x, y, z) = (x and y) xor (x and z) xor (y and z)
XorNibble == [a \in 0..15 |-> [b \in 0..15 |-> [c \in 0..15 |-> bitwise("xor", a, b, c, 4)]]]
ChNibble == [a \in 0..15 |-> [b \in 0..15 |-> [c \in 0..15 |-> bitwise("ch", a, b, c, 4)]]]
MajNibble == [a \in 0..15 |-> [b \in 0..15 |-> [c \in 0..15 |-> bitwise("maj", a, b, c, 4)]]]

\* a nibble table applied to three 16-bit operands
Half3(table, a, b, c) ==
    table[a % 16][b % 16][c % 16]
    + (16 * table[(a \div 16) % 16][(b \div 16) % 16][(c \div 16) % 16])
    + (256 * table[(a \div 256) % 16][(b \div 256) % 16][(c \div 256) % 16])
    + (4096 * table[a \div 4096][b \div 4096][c \div 4096])

Word3(table, u, v, w) == <<Half3(table, u[1], v[1], w[1]), Half3(table, u[2], v[2], w[2])>>

\* addition modulo 2^32
WordAdd(u, v) ==
    LET lo == u[2] + v[2]
    IN  <<(u[1] + v[1] + (lo \div 65536)) % 65536, lo % 65536>>

\* rotate right by n, 0 < n < 32
Rotr(u, n) ==
    LET w == IF n >= 16 THEN <<u[2], u[1]>> ELSE u
        k == n % 16
        p == 2 ^ k
        q == 2 ^ (16 - k)
    IN  IF k = 0 THEN w
        ELSE <<(w[1] \div p) + ((w[2] % p) * q), (w[2] \div p) + ((w[1] % p) * q)>>

\* shift right by n, 0 < n < 16
Shr(u, n) ==
    LET p == 2 ^ n
        q == 2 ^ (16 - n)
    IN  <<u[1] \div p, (u[2] \div p) + ((u[1] % p) * q)>>

SHA256_K ==
   << <<17034, 12184>>, <<28983, 17553>>, <<46528, 64463>>, <<59829, 56229>>,
      <<14678, 49755>>, <<23025, 4593>>, <<37439, 33444>>, <<43804, 24277>>,
      <<55303, 43672>>, <<4739, 23297>>, <<9265, 34238>>, <<21772, 32195>>,
      <<29374, 23924>>, <<32990, 45566>>, <<39900, 1703>>, <<49563, 61812>>,
      <<58523, 27073>>, <<61374, 18310>>, <<4033, 40390>>, <<9228, 41420>>,
      <<11753, 11375>>, <<19060, 33962>>, <<23728, 43484>>, <<30457, 35034>>,
      <<38974, 20818>>, <<43057, 50797>>, <<45059, 10184>>, <<48985, 32711>>,
      <<50912, 3059>>, <<54695, 37191>>, <<1738, 25425>>, <<5161, 10599>>,
      <<10167, 2693>>, <<11803, 8504>>, <<19756, 28156>>, <<21304, 3347>>,
      <<25866, 29524>>, <<30314, 2747>>, <<33218, 51502>>, <<37490, 11397>>,
      <<41663, 59553>>, <<43034, 26187>>, <<49739, 35696>>, <<51052, 20899>>,
      <<53650, 59417>>, <<54937, 1572>>, <<62478, 13701>>, <<4202, 41072>>,
      <<6564, 49430>>, <<7735, 27656>>, <<10056, 30540>>, <<13488, 48309>>,
      <<14620, 3251>>, <<20184, 43594>>, <<23452, 51791>>, <<26670, 28659>>,
      <<29839, 33518>>, <<30885, 25455>>, <<33992, 30740>>, <<36039, 520>>,
      <<37054, 65530>>, <<42064, 27883>>, <<48889, 41975>>, <<50801, 30962>> >>
SHA256_H0 ==
   << <<27145, 58983>>, <<47975, 44677>>, <<15470, 62322>>, <<42319, 62778>>,
      <<20750, 21119>>, <<39685, 26764>>, <<8067, 55723>>, <<23520, 52505>> >>

\* the message schedule: 16 words of the block extended to 64
RECURSIVE Schedule(_)
Schedule(W) ==
    IF Len(W) = 64 THEN W
    ELSE LET t   == Len(W) + 1
             w15 == W[t - 15]
             w2  == W[t - 2]
             s0  == Word3(XorNibble, Rotr(w15, 7), Rotr(w15, 18), Shr(w15, 3))
             s1  == Word3(XorNibble, Rotr(w2, 17), Rotr(w2, 19), Shr(w2, 10))
         IN  Schedule(Append(W, WordAdd(WordAdd(W[t - 16], s0), WordAdd(W[t - 7], s1))))

\* rounds t..64 of the compression function on the working variables st
RECURSIVE Rounds(_, _, _)
Rounds(st, W, t) ==
    IF Len(st) # 8 \/ t > 64 THEN st
    ELSE LET a  == st[1]
             e  == st[5]
             S1 == Word3(XorNibble, Rotr(e, 6), Rotr(e, 11), Rotr(e, 25))
             ch == Word3(ChNibble, e, st[6], st[7])
             t1 == WordAdd(WordAdd(WordAdd(st[8], S1), WordAdd(ch, SHA256_K[t])), W[t])
             S0 == Word3(XorNibble, Rotr(a, 2), Rotr(a, 13), Rotr(a, 22))
             mj == Word3(MajNibble, a, st[2], st[3])
             t2 == WordAdd(S0, mj)
         IN  Rounds(<<WordAdd(t1, t2), a, st[2], st[3], WordAdd(st[4], t1), e, st[6], st[7]>>,
                    W, t + 1)

Compress(H, block) ==
    LET W  == Schedule(block)
        st == Rounds(H, W, 1)
    IN  <<WordAdd(H[1], st[1]), WordAdd(H[2], st[2]), WordAdd(H[3], st[3]), WordAdd(H[4], st[4]),
          WordAdd(H[5], st[5]), WordAdd(H[6], st[6]), WordAdd(H[7], st[7]), WordAdd(H[8], st[8])>>

\* the message, a 1 bit, zeros to 56 modulo 64, and the bit length in 64 bits
\* (its high 48 bits are 0 for messages shorter than 8192 bytes)
Pad(bytes) ==
    LET n    == Len(bytes)
        z    == (119 - (n % 64)) % 64
        bits == 8 * n
    IN  bytes \o <<128>> \o [i \in 1..z |-> 0]
        \o <<0, 0, 0, 0, 0, 0, (bits \div 256) % 256, bits % 256>>

\* the bytes as big-endian 32-bit words
RECURSIVE words_from(_, _)
words_from(bytes, acc) ==
    IF 4 * Len(acc) >= Len(bytes) THEN acc
    ELSE LET i == 4 * Len(acc)
         IN  words_from(bytes,
                 Append(acc, <<(bytes[i + 1] * 256) + bytes[i + 2],
                               (bytes[i + 3] * 256) + bytes[i + 4]>>))

WordsOf(bytes) == words_from(bytes, << >>)

RECURSIVE Blocks(_, _)
Blocks(H, words) ==
    IF Len(words) = 0 THEN H
    ELSE Blocks(Compress(H, SubSeq(words, 1, 16)), SubSeq(words, 17, Len(words)))

sha256(bytes) == Blocks(SHA256_H0, WordsOf(Pad(bytes)))

HexDigits == "0123456789abcdef"
Hex16(h) ==
    Char(HexDigits, (h \div 4096) + 1) \o Char(HexDigits, ((h \div 256) % 16) + 1)
    \o Char(HexDigits, ((h \div 16) % 16) + 1) \o Char(HexDigits, (h % 16) + 1)

\* hexdigest()[:12]: the first six bytes of the digest
hexdigest12(H) == Hex16(H[1][1]) \o Hex16(H[1][2]) \o Hex16(H[2][1])

\* the printable ASCII characters by code: 32..95 and 97..126
AsciiLow == " !\"#$%&'()*+,-./0123456789:;<=>?@ABCDEFGHIJKLMNOPQRSTUVWXYZ[\\]^_"
AsciiHigh == "abcdefghijklmnopqrstuvwxyz{|}~"

\* ord(c) of the characters modelled
OrdOf ==
    [c \in {"\n", "\t"} \cup {Char(AsciiLow, i) : i \in 1..Len(AsciiLow)}
            \cup {Char(AsciiHigh, i) : i \in 1..Len(AsciiHigh)} |->
        IF c = "\n" THEN 10
        ELSE IF c = "\t" THEN 9
        ELSE IF IndexIn(AsciiHigh, c) # 0 THEN 96 + IndexIn(AsciiHigh, c)
        ELSE 31 + IndexIn(AsciiLow, c)]

ord(c) == OrdOf[c]

\* s.encode(): UTF-8, one byte per ASCII character
str_encode(s) == [i \in 1..Len(s) |-> ord(Char(s, i))]

---------------------------------------------------------------------------
(* generate_transformation_hash, generate_reflexion_dna *)

HASH_PREFIX_LEN == 50

\* "combined" with the [:50] slices left out
combined_whole_texts(c, b, n) == c \o b \o n

\* "combined" with the slices one character short
combined_prefixes_short(c, b, n) ==
    str_prefix(c, HASH_PREFIX_LEN - 1) \o str_prefix(b, HASH_PREFIX_LEN - 1)
    \o str_prefix(n, HASH_PREFIX_LEN - 1)

\* "combined" with a separator between the phases
combined_with_separators(c, b, n) ==
    str_prefix(c, HASH_PREFIX_LEN) \o "|" \o str_prefix(b, HASH_PREFIX_LEN)
    \o "|" \o str_prefix(n, HASH_PREFIX_LEN)

combined_prefixes(c, b, n) ==
    str_prefix(c, HASH_PREFIX_LEN) \o str_prefix(b, HASH_PREFIX_LEN)
    \o str_prefix(n, HASH_PREFIX_LEN)

\* the hash taken over "combined" and the number of invocations made so far
generate_transformation_hash_counting(c, b, n) ==
    hexdigest12(sha256(str_encode(combined_prefixes(c, b, n)) \o <<48 + Len(log)>>))

generate_transformation_hash(c, b, n) ==
    hexdigest12(sha256(str_encode(combined_prefixes(c, b, n))))

\* the "for text in [collapse, build, now]" loop from its i-th text on
RECURSIVE theme_chain_from(_, _, _)
theme_chain_from(texts, i, chain) ==
    IF i > Len(texts) THEN chain
    ELSE LET found == extract_themes(texts[i])
         IN  theme_chain_from(texts, i + 1,
                              IF Len(found) > 0 THEN Append(chain, found[1]) ELSE chain)

\* the loop extending the chain with every theme of a phase
RECURSIVE theme_chain_extend_from(_, _, _)
theme_chain_extend_from(texts, i, chain) ==
    IF i > Len(texts) THEN chain
    ELSE theme_chain_extend_from(texts, i + 1, chain \o extract_themes(texts[i]))

theme_chain_every_theme(c, b, n) == theme_chain_extend_from(<<c, b, n>>, 1, << >>)

theme_chain(c, b, n) == theme_chain_from(<<c, b, n>>, 1, << >>)

\* the archetype field falling back for every key the catalog does not hold
dna_archetype_catalog_only(a) == IF a \in DOMAIN ARCHETYPES THEN a ELSE "wanderer"

\* archetype if archetype else "wanderer"
dna_archetype(a) == IF truthy(a) THEN a ELSE "wanderer"

generate_reflexion_dna(c, b, n, a) ==
    [collapse_root |-> extract_core_theme(c, COLLAPSE_ROOTS),
     emergent_trait |-> extract_core_theme(b, EMERGENT_TRAITS),
     final_state |-> extract_core_theme(n, FINAL_STATES),
     archetype |-> dna_archetype(a),
     theme_chain |-> theme_chain(c, b, n),
     transformation_hash |-> generate_transformation_hash(c, b, n)]

---------------------------------------------------------------------------
(* generate_share_code *)

Digits == "0123456789"

\* str(n) for n >= 0
RECURSIVE nat_str(_)
nat_str(n) ==
    IF n < 10 THEN Char(Digits, n + 1)
    ELSE nat_str(n \div 10) \o Char(Digits, (n % 10) + 1)

\* str(n)
int_str(n) == IF n < 0 THEN "-" \o nat_str(0 - n) ELSE nat_str(n)

\* int(x) of the float timestamp.timestamp(): rounds toward zero
int_of_timestamp(ts) ==
    IF ts.seconds < 0 /\ ts.microsecond > 0 THEN ts.seconds + 1 ELSE ts.seconds

\* s[-n:]
str_suffix(s, n) == SubSeq(s, IF Len(s) > n THEN Len(s) - n + 1 ELSE 1, Len(s))

PREFIX_LEN == 3
TIME_LEN == 4
ID_LEN == 4

arch_prefix(a) == IF truthy(a) THEN str_upper(str_prefix(a, PREFIX_LEN)) ELSE "WND"

\* the time component taken from the front of the number
time_component_leading(ts) == str_prefix(int_str(int_of_timestamp(ts)), TIME_LEN)

time_component(ts) == str_suffix(int_str(int_of_timestamp(ts)), TIME_LEN)

id_component(rid) == str_upper(str_prefix(rid, ID_LEN))

generate_share_code(rid, a, ts) ==
    arch_prefix(a) \o "-" \o time_component(ts) \o "-" \o id_component(rid)

---------------------------------------------------------------------------
(* The inputs the functions are called with *)

MaxFrags == 2

Fragments ==
    {"lost identity ",
     " my TRUST lied",
     "Control failed ",
     "I saw truth, built wisdom ",
     "Resilience became freedom\n",
     "Whole, Integrated"}

\* the concatenations of at most k fragments
RECURSIVE TextsUpTo(_)
TextsUpTo(k) ==
    IF k = 0 THEN {""}
    ELSE LET shorter == TextsUpTo(k - 1)
         IN  shorter \cup {t \o f : t \in shorter, f \in Fragments}

Texts == TextsUpTo(MaxFrags)

SCENARIO_COLLAPSE == "I lost my identity when they betrayed my trust"
SCENARIO_BUILD == "I built resilience and found wisdom"
SCENARIO_NOW == "I am authentic and whole"
CONTROL_COLLAPSE == "I lost control of my identity and trust"

ArchetypeArgs ==
    {"", "phoenix", "Phoenix", "PHOENIX", "sAgE", "wanderer", "unicorn", " sage"}

\* (collapse, build, now, archetype): one phase ranging over Texts, or the
\* archetype ranging over ArchetypeArgs with each phase present or blank
CallInputs ==
    (Texts \X {SCENARIO_BUILD} \X {SCENARIO_NOW} \X {"phoenix"})
    \cup ({SCENARIO_COLLAPSE} \X Texts \X {SCENARIO_NOW} \X {""})
    \cup ({CONTROL_COLLAPSE} \X {SCENARIO_BUILD} \X Texts \X {"unicorn"})
    \cup ({SCENARIO_COLLAPSE, ""} \X {SCENARIO_BUILD, " nothing new "}
          \X {SCENARIO_NOW, "\n"} \X ArchetypeArgs)

NoEdit == [kind |-> "none", phase |-> "none", pos |-> 0]

\* a datetime, as its POSIX time: whole seconds (rounded down) and microseconds
datetime(seconds, microsecond) == [seconds |-> seconds, microsecond |-> microsecond]

\* the state of what no call has touched yet
no_share_code == reflection_id = "" /\ timestamp = datetime(0, 0) /\ share_code = ""
no_lookup == [id |-> "", status |-> 0, computed |-> FALSE, body |-> None]
no_requests == requests = << >> /\ archive = << >> /\ db = {} /\ lookup = no_lookup

Init ==
    /\ ARCHETYPES = ArchetypeCatalog
    /\ \E in \in CallInputs :
          /\ collapse = in[1]
          /\ build = in[2]
          /\ now = in[3]
          /\ archetype = in[4]
    /\ pc = "start"
    /\ sections = << >>
    /\ narrative = ""
    /\ dna = None
    /\ compressed = None
    /\ text = ""
    /\ themes = << >>
    /\ edit = NoEdit
    /\ hash0 = ""
    /\ hash1 = ""
    /\ combined0 = ""
    /\ combined1 = ""
    /\ no_share_code
    /\ keyword_text = ""
    /\ log = << >>
    /\ no_requests

args == <<collapse, build, now, archetype>>

---------------------------------------------------------------------------
(* The calls: each function is called once on the arguments *)

Call_generate_narrative ==
    /\ pc = "start"
    /\ sections' = narrative_sections(collapse, build, now, archetype)
    /\ narrative' = generate_narrative(collapse, build, now, archetype)
    /\ pc' = "generate_narrative"
    /\ UNCHANGED <<ARCHETYPES, args, dna, compressed, text, themes, edit, hash0, hash1,
                   combined0, combined1, share_vars, keyword_text, log, mirror_vars>>

Call_generate_reflexion_dna ==
    /\ pc = "generate_compressed_summary"
    /\ dna' = generate_reflexion_dna(collapse, build, now, archetype)
    /\ pc' = "generate_reflexion_dna"
    /\ UNCHANGED <<ARCHETYPES, args, sections, narrative, compressed, text, themes,
                   edit, hash0, hash1, combined0, combined1, share_vars, keyword_text, log,
                   mirror_vars>>

Call_generate_compressed_summary ==
    /\ pc = "generate_narrative"
    /\ compressed' = generate_compressed_summary(collapse, build, now, archetype)
    /\ pc' = "generate_compressed_summary"
    /\ UNCHANGED <<ARCHETYPES, args, sections, narrative, dna, text, themes,
                   edit, hash0, hash1, combined0, combined1, share_vars, keyword_text, log,
                   mirror_vars>>

\* extract_themes called on one of the phase texts
Call_extract_themes ==
    /\ pc = "start"
    /\ \E t \in {collapse, build, now} :
          /\ text' = t
          /\ themes' = extract_themes(t)
    /\ pc' = "extract_themes"
    /\ UNCHANGED <<ARCHETYPES, args, sections, narrative, dna, compressed,
                   edit, hash0, hash1, combined0, combined1, share_vars, keyword_text, log,
                   mirror_vars>>

\* extract_keywords called on one of the phase texts
Call_extract_keywords ==
    /\ pc = "start"
    /\ \E t \in {collapse, build, now} :
          /\ text' = t
          /\ keyword_text' = extract_keywords(t)
    /\ pc' = "extract_keywords"
    /\ UNCHANGED <<ARCHETYPES, args, sections, narrative, dna, compressed, themes,
                   edit, hash0, hash1, combined0, combined1, share_vars, log, mirror_vars>>

Next ==
    \/ Call_generate_narrative
    \/ Call_generate_reflexion_dna
    \/ Call_generate_compressed_summary
    \/ Call_extract_themes
    \/ Call_extract_keywords

Spec == Init /\ [][Next]_vars

narrative_returned ==
    pc \in {"generate_narrative", "generate_compressed_summary", "generate_reflexion_dna"}
compressed_returned == pc \in {"generate_compressed_summary", "generate_reflexion_dna"}
dna_returned == pc = "generate_reflexion_dna"
themes_returned == pc = "extract_themes"
keywords_returned == pc = "extract_keywords"

---------------------------------------------------------------------------
(* generate_transformation_hash called before and after a change to one of
   its arguments *)

LONG_COLLAPSE == "I lost my identity when they betrayed my trust, then rebuilt it all"
LONG_BUILD == "From the ruins I built resilience, found wisdom and new strength"
LONG_NOW == "I am authentic and whole now, awakened to a life that is finally my own"

MaxAppend == 2

AppendChars == {"x", " "}

RECURSIVE StringsOfLen(_)
StringsOfLen(k) ==
    IF k = 0 THEN {""}
    ELSE {s \o c : s \in StringsOfLen(k - 1), c \in AppendChars}

Appendices == UNION {StringsOfLen(k) : k \in 1..MaxAppend}

ChangePositions == {1, 2, 25, 49, 50, 51, 52}

ReplacementChars == {"#", "Z"}

Phases == {"collapse", "build", "now"}

phase_text(phase) ==
    IF phase = "collapse" THEN collapse
    ELSE IF phase = "build" THEN build ELSE now

\* s with its character at pos replaced by c
replace_at(s, pos, c) == SubSeq(s, 1, pos - 1) \o c \o SubSeq(s, pos + 1, Len(s))

InitHash ==
    /\ ARCHETYPES = ArchetypeCatalog
    /\ collapse \in {str_prefix(LONG_COLLAPSE, 50), LONG_COLLAPSE, "abc"}
    /\ build \in {"", str_prefix(LONG_BUILD, 50)}
    /\ now \in {"xyz", str_prefix(LONG_NOW, 51)}
    /\ archetype = ""
    /\ pc = "start"
    /\ sections = << >>
    /\ narrative = ""
    /\ dna = None
    /\ compressed = None
    /\ text = ""
    /\ themes = << >>
    /\ edit = NoEdit
    /\ hash0 = ""
    /\ hash1 = ""
    /\ combined0 = ""
    /\ combined1 = ""
    /\ no_share_code
    /\ keyword_text = ""
    /\ log = << >>
    /\ no_requests

unhashed ==
    <<ARCHETYPES, archetype, sections, narrative, dna, compressed, text, themes,
      share_vars, keyword_text, log, mirror_vars>>

Hash0 ==
    /\ pc = "start"
    /\ combined0' = combined_prefixes(collapse, build, now)
    /\ hash0' = generate_transformation_hash(collapse, build, now)
    /\ pc' = "hashed"
    /\ UNCHANGED <<unhashed, collapse, build, now, edit, hash1, combined1>>

\* the second call's arguments: one phase with new_text in place of its text
EditPhase(phase, new_text, kind, pos) ==
    /\ collapse' = IF phase = "collapse" THEN new_text ELSE collapse
    /\ build' = IF phase = "build" THEN new_text ELSE build
    /\ now' = IF phase = "now" THEN new_text ELSE now
    /\ edit' = [kind |-> kind, phase |-> phase, pos |-> pos]
    /\ pc' = "edited"
    /\ UNCHANGED <<unhashed, hash0, hash1, combined0, combined1>>

\* text appended to one phase; pos is where the appended text starts
EditAppend ==
    /\ pc = "hashed"
    /\ \E phase \in Phases : \E extra \in Appendices :
          EditPhase(phase, phase_text(phase) \o extra, "append",
                    Len(phase_text(phase)) + 1)

\* one character of one phase replaced by another one
EditChange ==
    /\ pc = "hashed"
    /\ \E phase \in Phases : \E pos \in ChangePositions : \E c \in ReplacementChars :
          /\ pos <= Len(phase_text(phase))
          /\ Char(phase_text(phase), pos) # c
          /\ EditPhase(phase, replace_at(phase_text(phase), pos, c), "change", pos)

\* the boundary between two neighbouring phases moved by one character: the
\* last character of the earlier phase becomes the first one of the later
\* phase, or the other way round; before holds the first call's arguments
EditShift ==
    /\ pc = "hashed"
    /\ \E from \in Phases : \E to \in Phases \ {from} :
          LET earlier == IF "collapse" \in {from, to} THEN "collapse" ELSE "build"
              later == IF "now" \in {from, to} THEN "now" ELSE "build"
              moved == IF from = earlier
                       THEN Char(phase_text(from), Len(phase_text(from)))
                       ELSE Char(phase_text(from), 1)
              shrunk == IF from = earlier
                        THEN SubSeq(phase_text(from), 1, Len(phase_text(from)) - 1)
                        ELSE SubSeq(phase_text(from), 2, Len(phase_text(from)))
              grown == IF from = earlier THEN moved \o phase_text(to)
                       ELSE phase_text(to) \o moved
              new_text(phase) == IF phase = from THEN shrunk
                                 ELSE IF phase = to THEN grown ELSE phase_text(phase)
          IN  /\ {from, to} # {"collapse", "now"}
              /\ phase_text(from) # ""
              /\ collapse' = new_text("collapse")
              /\ build' = new_text("build")
              /\ now' = new_text("now")
              /\ edit' = [kind |-> "shift", phase |-> from, pos |-> 0,
                          before |-> <<collapse, build, now>>]
    /\ pc' = "edited"
    /\ UNCHANGED <<unhashed, hash0, hash1, combined0, combined1>>

Hash1 ==
    /\ pc = "edited"
    /\ combined1' = combined_prefixes(collapse, build, now)
    /\ hash1' = generate_transformation_hash(collapse, build, now)
    /\ pc' = "rehashed"
    /\ UNCHANGED <<unhashed, collapse, build, now, edit, hash0, combined0>>

NextHash ==
    \/ Hash0
    \/ EditAppend
    \/ EditChange
    \/ EditShift
    \/ Hash1

SpecHash == InitHash /\ [][NextHash]_vars

rehashed == pc = "rehashed"

---------------------------------------------------------------------------
(* generate_share_code called on its own *)

ReflectionIds == {"abcd1234", "9f3c0a7e", "ab", ""}

ShareArchetypes == {"", "Phoenix", "phoenix", "ab", "unicorn", " sage"}

Timestamps ==
    {datetime(1700000000, 0), datetime(1700001234, 500000), datetime(12345, 999999),
     datetime(999, 0), datetime(0, 0), datetime(-5, 250000)}

InitShare ==
    /\ ARCHETYPES = ArchetypeCatalog
    /\ collapse = ""
    /\ build = ""
    /\ now = ""
    /\ archetype \in ShareArchetypes
    /\ pc = "start"
    /\ sections = << >>
    /\ narrative = ""
    /\ dna = None
    /\ compressed = None
    /\ text = ""
    /\ themes = << >>
    /\ edit = NoEdit
    /\ hash0 = ""
    /\ hash1 = ""
    /\ combined0 = ""
    /\ combined1 = ""
    /\ reflection_id \in ReflectionIds
    /\ timestamp \in Timestamps
    /\ share_code = ""
    /\ keyword_text = ""
    /\ log = << >>
    /\ no_requests

Call_generate_share_code ==
    /\ pc = "start"
    /\ share_code' = generate_share_code(reflection_id, archetype, timestamp)
    /\ pc' = "generate_share_code"
    /\ UNCHANGED <<ARCHETYPES, args, sections, narrative, dna, compressed, text, themes,
                   edit, hash0, hash1, combined0, combined1, reflection_id, timestamp,
                   keyword_text, log, mirror_vars>>

NextShare == Call_generate_share_code

SpecShare == InitShare /\ [][NextShare]_vars

share_code_returned == pc = "generate_share_code"

---------------------------------------------------------------------------
(* Invocations of the core functions one after the other, in any order *)

MaxCalls == 3

CallTuples ==
    {<<SCENARIO_COLLAPSE, SCENARIO_BUILD, SCENARIO_NOW, "Phoenix">>, <<"", "", "", "">>}

InitCalls ==
    /\ ARCHETYPES = ArchetypeCatalog
    /\ collapse = ""
    /\ build = ""
    /\ now = ""
    /\ archetype = ""
    /\ pc = "start"
    /\ sections = << >>
    /\ narrative = ""
    /\ dna = None
    /\ compressed = None
    /\ text = ""
    /\ themes = << >>
    /\ edit = NoEdit
    /\ hash0 = ""
    /\ hash1 = ""
    /\ combined0 = ""
    /\ combined1 = ""
    /\ no_share_code
    /\ keyword_text = ""
    /\ log = << >>
    /\ no_requests

\* an invocation of fn on the tuple t that returned result
Invoke(fn, t, result) ==
    /\ Len(log) < MaxCalls
    /\ collapse' = t[1]
    /\ build' = t[2]
    /\ now' = t[3]
    /\ archetype' = t[4]
    /\ pc' = fn
    /\ log' = Append(log, [fn |-> fn, args |-> t, result |-> result])
    /\ UNCHANGED <<ARCHETYPES, text, themes, edit, hash0, hash1, combined0, combined1,
                   share_vars, keyword_text, mirror_vars>>

Invoke_generate_narrative ==
    \E t \in CallTuples :
        /\ Invoke("generate_narrative", t, generate_narrative(t[1], t[2], t[3], t[4]))
        /\ sections' = narrative_sections(t[1], t[2], t[3], t[4])
        /\ narrative' = generate_narrative(t[1], t[2], t[3], t[4])
        /\ UNCHANGED <<dna, compressed>>

Invoke_generate_reflexion_dna ==
    \E t \in CallTuples :
        /\ Invoke("generate_reflexion_dna", t, generate_reflexion_dna(t[1], t[2], t[3], t[4]))
        /\ dna' = log'[Len(log')].result
        /\ UNCHANGED <<sections, narrative, compressed>>

Invoke_generate_compressed_summary ==
    \E t \in CallTuples :
        /\ Invoke("generate_compressed_summary", t,
                  generate_compressed_summary(t[1], t[2], t[3], t[4]))
        /\ compressed' = log'[Len(log')].result
        /\ UNCHANGED <<sections, narrative, dna>>

NextCalls ==
    \/ Invoke_generate_narrative
    \/ Invoke_generate_reflexion_dna
    \/ Invoke_generate_compressed_summary

SpecCalls == InitCalls /\ [][NextCalls]_vars

---------------------------------------------------------------------------
(* The handler of POST /mirror, one thread per request.  A step is the code
   between two accesses to what the requests share: the table reflections
   and the directory Collapse_Archive. *)

MaxRequests == 2

Requests == 1..MaxRequests

\* the form fields of a request; the archetype and email fields vary
FORM_COLLAPSE == " I lost my trust "
FORM_BUILD == "I built wisdom\n"
FORM_NOW == ""
Forms ==
    {[archetype |-> "", email |-> "  "],
     [archetype |-> " Phoenix", email |-> " me@example.org"],
     [archetype |-> "unicorn", email |-> ""]}
FormArchetypes == {form.archetype : form \in Forms}

\* str(uuid.uuid4())[:8] of each request, and datetime.now()
Uuids == <<"9f3c0a7e", "abcd1234", "0b1c2d3e", "77aa01ff">>
CREATED_AT == datetime(1700000000, 250000)

\* request.form.get('archetype', '').strip() without .lower()
normalize_archetype_strip_only(form) == str_strip(form)

\* request.form.get('archetype', '').strip().lower()
normalize_archetype(form) == str_lower(str_strip(form))

\* d.setdefault(key, default): the dict afterwards
dict_after_setdefault(d, key, default) ==
    IF key \in DOMAIN d THEN d ELSE (key :> default) @@ d

\* d.get(key, default): the dict afterwards
dict_after_get(d, key, default) == d

\* f"entry_{entry_number:03d}"
entry_id(entry_number) ==
    "entry_" \o (IF entry_number < 10 THEN "00"
                 ELSE IF entry_number < 100 THEN "0" ELSE "")
    \o int_str(entry_number)

log_filepath(entry_number) == "collapse_" \o entry_id(entry_number) \o ".json"

\* len([f for f in os.listdir(log_dir) if f.endswith('.json')])
count_json_files(dir) == Cardinality(DOMAIN dir)

new_request(form, email_form) ==
    [pc |-> "start", form |-> form, email_form |-> email_form, archetype |-> "",
     email |-> "", narrative |-> "",
     reflexion_dna |-> None, reflection_id |-> "", share_code |-> "",
     entry_number |-> 0, compressed_summary |-> None, logged |-> FALSE,
     emailed |-> "not attempted", page |-> None]

\* the arguments generate_reflexion_dna gets from the forms, and what it
\* returns for them, evaluated once
DnaArguments ==
    {<<str_strip(FORM_COLLAPSE), str_strip(FORM_BUILD), str_strip(FORM_NOW),
       normalize_archetype(form)>> : form \in FormArchetypes}
DNA_RETURNED ==
    [t \in DnaArguments |-> generate_reflexion_dna(t[1], t[2], t[3], t[4])]

\* generate_reflexion_dna(c, b, n, a), taken from DNA_RETURNED where it is there
reflexion_dna_of(c, b, n, a) ==
    IF <<c, b, n, a>> \in DOMAIN DNA_RETURNED THEN DNA_RETURNED[<<c, b, n, a>>]
    ELSE generate_reflexion_dna(c, b, n, a)

\* the columns of reflection_data that get_reflexion_dna selects later, and
\* the narrative
reflections_row_title_archetype(rid, c, b, n, a, text_out) ==
    [id |-> rid, collapse |-> c, build |-> b, now |-> n, archetype |-> str_title(a),
     narrative |-> text_out]

reflections_row(rid, c, b, n, a, text_out) ==
    [id |-> rid, collapse |-> c, build |-> b, now |-> n, archetype |-> a,
     narrative |-> text_out]

\* "if email:" with an address given whatever it is
email_requested_any(address) == TRUE

\* "if email:"
email_requested(address) == truthy(address)

core_vars ==
    <<collapse, build, now, archetype, pc, sections, narrative, dna, compressed, text,
      themes, edit, hash0, hash1, combined0, combined1, share_vars, keyword_text, log>>

InitMirror ==
    /\ ARCHETYPES = ArchetypeCatalog
    /\ collapse = ""
    /\ build = ""
    /\ now = ""
    /\ archetype = ""
    /\ pc = "start"
    /\ sections = << >>
    /\ narrative = ""
    /\ dna = None
    /\ compressed = None
    /\ text = ""
    /\ themes = << >>
    /\ edit = NoEdit
    /\ hash0 = ""
    /\ hash1 = ""
    /\ combined0 = ""
    /\ combined1 = ""
    /\ no_share_code
    /\ keyword_text = ""
    /\ log = << >>
    /\ requests \in [Requests -> {new_request(form.archetype, form.email) : form \in Forms}]
    /\ archive = << >>
    /\ db = {}
    /\ lookup = no_lookup

\* the form read and normalized, narrative and DNA generated, the reflection
\* saved, the share code generated
mirror_compose(r) ==
    LET c == str_strip(FORM_COLLAPSE)
        b == str_strip(FORM_BUILD)
        n == str_strip(FORM_NOW)
        a == normalize_archetype(requests[r].form)
        text_out == generate_narrative(c, b, n, a)
        rid == Uuids[r]
    IN  /\ requests[r].pc = "start"
        /\ requests' = [requests EXCEPT ![r] =
              [@ EXCEPT !.pc = "saved",
                        !.archetype = a,
                        !.email = str_strip(requests[r].email_form),
                        !.narrative = text_out,
                        !.reflexion_dna = reflexion_dna_of(c, b, n, a),
                        !.reflection_id = rid,
                        !.share_code = generate_share_code(rid, a, CREATED_AT)]]
        /\ db' = db \cup {reflections_row(rid, c, b, n, a, text_out)}
        /\ UNCHANGED <<ARCHETYPES, core_vars, archive, lookup>>

\* the .json files of the archive counted
mirror_listdir(r) ==
    /\ requests[r].pc = "saved"
    /\ requests' = [requests EXCEPT ![r] =
          [@ EXCEPT !.pc = "listed", !.entry_number = count_json_files(archive) + 1]]
    /\ UNCHANGED <<ARCHETYPES, core_vars, archive, db, lookup>>

\* the compressed summary generated and the entry written; open() may fail.
\* Then the email sent if one was asked for, which may fail too, and the result
\* page rendered: both exceptions are caught and printed.
mirror_log(r) ==
    LET req == requests[r]
        c == str_strip(FORM_COLLAPSE)
        b == str_strip(FORM_BUILD)
        n == str_strip(FORM_NOW)
        summary == generate_compressed_summary(c, b, n, req.archetype)
        log_data ==
            [id |-> entry_id(req.entry_number),
             reflection_id |-> req.reflection_id,
             archetype |-> IF truthy(req.archetype) THEN req.archetype ELSE "unassigned",
             compressed_summary |-> summary,
             reflexion_dna |-> req.reflexion_dna,
             share_code |-> req.share_code]
    IN  /\ req.pc = "listed"
        /\ ARCHETYPES' = dict_after_get(ARCHETYPES, req.archetype, << >>)
        /\ \E written \in BOOLEAN :
           \E sent \in IF email_requested(req.email) THEN {"sent", "failed"}
                        ELSE {"not attempted"} :
              /\ archive' = IF written
                            THEN (log_filepath(req.entry_number) :> log_data) @@ archive
                            ELSE archive
              /\ requests' = [requests EXCEPT ![r] =
                    [@ EXCEPT !.pc = "done", !.compressed_summary = summary,
                              !.logged = written,
                              !.emailed = sent,
                              !.page = [reflection |-> req.narrative,
                                        reflection_id |-> req.reflection_id,
                                        archetype |-> req.archetype,
                                        reflexion_dna |-> req.reflexion_dna,
                                        share_code |-> req.share_code]]]
        /\ UNCHANGED <<core_vars, db, lookup>>

NextMirror ==
    \/ \E r \in Requests : mirror_compose(r)
    \/ \E r \in Requests : mirror_listdir(r)
    \/ \E r \in Requests : mirror_log(r)

SpecMirror == InitMirror /\ [][NextMirror]_vars

---------------------------------------------------------------------------
(* GET /api/reflexion-dna/<reflection_id>, asked at any moment of the
   submissions: one SELECT on the table, then the DNA generated again from
   the row, or the error. *)

\* the first request's id and one no request gets
LookupIds == {Uuids[1], "00000000"}

NOT_FOUND == 404
FOUND == 200

get_reflexion_dna(rid) ==
    LET selected == {stored \in db : stored.id = rid}
    IN  /\ lookup' =
              IF selected # {}
              THEN LET fetched == CHOOSE stored \in selected : TRUE
                   IN  [id |-> rid, status |-> FOUND, computed |-> TRUE,
                        body |-> reflexion_dna_of(fetched.collapse, fetched.build,
                                                  fetched.now, fetched.archetype)]
              ELSE [id |-> rid, status |-> NOT_FOUND, computed |-> FALSE,
                    body |-> [error |-> "Reflection not found"]]
        /\ UNCHANGED <<ARCHETYPES, core_vars, requests, archive, db>>

NextLookup ==
    \/ NextMirror
    \/ \E rid \in LookupIds : get_reflexion_dna(rid)

SpecLookup == InitMirror /\ [][NextLookup]_vars

---------------------------------------------------------------------------
(* What the claims speak of *)

starts_with(s, p) == Len(p) <= Len(s) /\ SubSeq(s, 1, Len(p)) = p

\* what follows the prefix p in s
after_prefix(s, p) == SubSeq(s, Len(p) + 1, Len(s))

\* t is s without its leading and trailing whitespace
is_trim_of(t, s) ==
    /\ \E i \in 0..Len(s) : \E j \in i..Len(s) :
          /\ t = SubSeq(s, i + 1, j)
          /\ \A k \in 1..i : Char(s, k) \in Whitespace
          /\ \A k \in (j + 1)..Len(s) : Char(s, k) \in Whitespace
    /\ t = "" \/ (Char(t, 1) \notin Whitespace /\ Char(t, Len(t)) \notin Whitespace)

\* the first position at which sub occurs in s, 0 when it does not
first_index(sub, s) ==
    IF str_in(sub, s)
    THEN CHOOSE i \in 1..(Len(s) + 1) :
            /\ SubSeq(s, i, i + Len(sub) - 1) = sub
            /\ \A k \in 1..(i - 1) : SubSeq(s, k, k + Len(sub) - 1) # sub
    ELSE 0

\* a and b are the same string up to the case of their letters
same_ignoring_case(a, b) ==
    /\ Len(a) = Len(b)
    /\ \A i \in 1..Len(a) : lower_char(Char(a, i)) = lower_char(Char(b, i))

\* sub occurs in s, compared case-insensitively
occurs_ignoring_case(sub, s) == str_in(str_lower(sub), str_lower(s))

\* the catalog keys the archetype argument matches case-insensitively
matching_keys == {k \in DOMAIN ARCHETYPES : same_ignoring_case(archetype, k)}

\* the j-th smallest element of a set of numbers
nth_smallest(S, j) == CHOOSE x \in S : Cardinality({y \in S : y < x}) = j - 1

\* a section is its header line, its lead-in line and the trimmed phase text
is_phase_section(section, opening, given_text) ==
    /\ starts_with(section, opening)
    /\ is_trim_of(after_prefix(section, opening), given_text)

\* C1: generate_narrative emits the sections COLLAPSE, COMPRESSION,
\* CONVERGENCE in that order, each its fixed lead-in followed by the trimmed
\* text of its phase, and an ARCHETYPE section after them exactly when the
\* archetype argument is not empty.
C1_sections_in_fixed_order ==
    narrative_returned =>
        /\ Len(sections) \in {3, 4}
        /\ is_phase_section(sections[1],
              "[ COLLAPSE ]\nIn the depths of dissolution, you faced the void:\n", collapse)
        /\ is_phase_section(sections[2],
              "\n[ COMPRESSION ]\nFrom the fragments, you forged something new:\n", build)
        /\ is_phase_section(sections[3],
              "\n[ CONVERGENCE ]\nNow, you stand transformed:\n", now)
        /\ (Len(sections) = 4) <=> (archetype # "")
        /\ Len(sections) = 4 => starts_with(sections[4], "\n[ ARCHETYPE ]\n")
        /\ narrative = sections[1] \o "\n\n" \o sections[2] \o "\n\n" \o sections[3]
                       \o (IF Len(sections) = 4 THEN "\n\n" \o sections[4] ELSE "")
        /\ first_index("[ COLLAPSE ]", narrative) = 1
        /\ first_index("[ COLLAPSE ]", narrative) < first_index("[ COMPRESSION ]", narrative)
        /\ first_index("[ COMPRESSION ]", narrative) < first_index("[ CONVERGENCE ]", narrative)
        /\ str_in("[ ARCHETYPE ]", narrative) <=> (archetype # "")
        /\ archetype # "" =>
              first_index("[ CONVERGENCE ]", narrative) < first_index("[ ARCHETYPE ]", narrative)

\* a narrative of a call whose build text has whitespace around it and whose
\* archetype is given
C1_witness ==
    /\ narrative_returned
    /\ archetype # ""
    /\ build # str_strip(build)
    /\ str_strip(build) # ""
    /\ Len(sections) = 4

\* the display name of a catalog key: its first letter in upper case
display_name(k) == str_upper(Char(k, 1)) \o SubSeq(k, 2, Len(k))

\* C2: an archetype argument that matches a catalog key case-insensitively
\* yields an ARCHETYPE section naming the archetype in title case with the
\* entry's description and quote; for phoenix it holds "Viktor Frankl".
C2_known_archetype_named ==
    narrative_returned =>
        \A k \in matching_keys :
            /\ Len(sections) = 4
            /\ starts_with(sections[4], "\n[ ARCHETYPE ]\n")
            /\ str_in("You embody the " \o display_name(k) \o ": "
                      \o ArchetypeCatalog[k].description, sections[4])
            /\ str_in(ArchetypeCatalog[k].quote, sections[4])
            /\ first_index(ArchetypeCatalog[k].description, narrative)
                  < first_index(ArchetypeCatalog[k].quote, narrative)
            /\ k = "phoenix" => str_in("Viktor Frankl", narrative)

\* a narrative for the key phoenix written with a capital
C2_witness ==
    /\ narrative_returned
    /\ archetype = "Phoenix"
    /\ matching_keys = {"phoenix"}
    /\ str_in("You embody the Phoenix: Rising from ashes", narrative)

\* C3: an archetype argument that is not empty and matches no catalog key
\* yields the narrative all the same, its ARCHETYPE section holding the
\* "still crystallizing" placeholder and no name, description or quote.
C3_unknown_archetype_placeholder ==
    (narrative_returned /\ archetype # "" /\ matching_keys = {}) =>
        /\ Len(sections) = 4
        /\ starts_with(sections[4], "\n[ ARCHETYPE ]\n")
        /\ str_in("still crystallizing", after_prefix(sections[4], "\n[ ARCHETYPE ]\n"))
        /\ ~ str_in("You embody", sections[4])
        /\ ~ occurs_ignoring_case(archetype, sections[4])
        /\ \A k \in DOMAIN ArchetypeCatalog :
              /\ ~ occurs_ignoring_case(k, sections[4])
              /\ ~ str_in(ArchetypeCatalog[k].description, narrative)
              /\ ~ str_in(ArchetypeCatalog[k].quote, narrative)
        /\ str_in("[ CONVERGENCE ]", narrative)

\* a narrative for the key unicorn, which the catalog does not hold
C3_witness ==
    /\ narrative_returned
    /\ archetype = "unicorn"
    /\ matching_keys = {}
    /\ str_in("still crystallizing", narrative)

\* C4: the compressed summary holds Collapse, Compression and Convergence,
\* and holds Archetypal_Pattern exactly when the archetype argument is a
\* recognized key, recognized as the narrative recognizes it
\* (case-insensitively).
C4_archetypal_pattern_iff_recognized ==
    compressed_returned =>
        /\ {"Collapse", "Compression", "Convergence"} \subseteq DOMAIN compressed
        /\ ("Archetypal_Pattern" \in DOMAIN compressed) <=> (matching_keys # {})

\* C5: the DNA's archetype field is the supplied key as given, whether or
\* not the catalog holds it, and "wanderer" when the supplied key is empty.
C5_dna_archetype_verbatim ==
    dna_returned =>
        /\ archetype # "" => dna.archetype = archetype
        /\ archetype = "" => dna.archetype = "wanderer"
        /\ (dna.archetype = "wanderer") <=> (archetype \in {"", "wanderer"})

\* a DNA for a key the catalog does not hold, stored as given
C5_witness ==
    /\ dna_returned
    /\ archetype = "unicorn"
    /\ archetype \notin DOMAIN ARCHETYPES
    /\ dna.archetype = "unicorn"

\* the element of theme_list the claim C6 describes: the earliest listed one
\* that occurs in the text, the first one when none occurs
earliest_listed(t, theme_list) ==
    LET found == {i \in 1..Len(theme_list) : occurs_ignoring_case(theme_list[i], t)}
    IN  IF found = {} THEN theme_list[1] ELSE theme_list[nth_smallest(found, 1)]

core_themes_are_earliest_listed ==
    /\ dna.collapse_root = earliest_listed(collapse,
          <<"control", "identity", "trust", "purpose", "belonging", "certainty">>)
    /\ dna.emergent_trait = earliest_listed(build,
          <<"resilience", "wisdom", "compassion", "strength", "clarity", "freedom">>)
    /\ dna.final_state = earliest_listed(now,
          <<"authentic", "integrated", "empowered", "aligned", "whole", "awakened">>)

\* C6: extract_core_theme returns the earliest element of the list, in list
\* order, that occurs in the text case-insensitively, and the first element
\* when none occurs; hence a collapse text holding "identity" and "trust",
\* and not "control", has the collapse_root "identity".
C6_earliest_listed_theme ==
    dna_returned =>
        /\ core_themes_are_earliest_listed
        /\ ( /\ occurs_ignoring_case("identity", collapse)
             /\ occurs_ignoring_case("trust", collapse)
             /\ ~ occurs_ignoring_case("control", collapse) )
           => dna.collapse_root = "identity"

\* a collapse text where "trust" stands before "identity": list order decides
C6_witness ==
    /\ dna_returned
    /\ str_in("TRUST", collapse)
    /\ first_index("TRUST", collapse) < first_index("identity", collapse)
    /\ ~ occurs_ignoring_case("control", collapse)
    /\ dna.collapse_root = "identity"

\* C6 as it is written: whatever else the collapse text holds, "identity" and
\* "trust" together make the collapse_root "identity".
C6_as_written ==
    dna_returned =>
        /\ core_themes_are_earliest_listed
        /\ ( /\ occurs_ignoring_case("identity", collapse)
             /\ occurs_ignoring_case("trust", collapse) )
           => dna.collapse_root = "identity"

theme_order ==
    <<"loss", "betrayal", "failure", "awakening", "rebuilding", "transformation",
      "freedom", "integration">>

\* the table rows of which a trigger occurs in the text
candidates(t) ==
    {i \in 1..Len(theme_words) :
        \E j \in 1..Len(theme_words[i].keywords) :
            occurs_ignoring_case(theme_words[i].keywords[j], t)}

\* C7: extract_themes returns at most 3 labels, none twice, in table order:
\* the first 3 of the labels that have a trigger occurring in the text
\* case-insensitively, and none when no trigger occurs.
C7_first_three_candidates ==
    themes_returned =>
        LET cand == candidates(text)
        IN  /\ [i \in 1..Len(theme_words) |-> theme_words[i].theme] = theme_order
            /\ Len(themes) <= 3
            /\ Len(themes) = IF Cardinality(cand) < 3 THEN Cardinality(cand) ELSE 3
            /\ \A j \in 1..Len(themes) : themes[j] = theme_order[nth_smallest(cand, j)]
            /\ \A i, j \in 1..Len(themes) : i # j => themes[i] # themes[j]
            /\ cand = {} => themes = << >>

\* a text with more than three candidate labels, cut to three
C7_witness ==
    /\ themes_returned
    /\ Cardinality(candidates(text)) > 3
    /\ Len(themes) = 3

\* what extract_themes returns for the three phases
phase_themes == [i \in 1..3 |-> extract_themes(<<collapse, build, now>>[i])]

\* the phases with a detected theme
phases_with_theme == {i \in 1..3 : Len(phase_themes[i]) > 0}

\* C8: theme_chain has 0 to 3 entries: the first theme of each phase that has
\* one, the phases taken in the order collapse, build, now; phases without a
\* theme are skipped, nothing is padded or reordered.
C8_theme_chain_first_themes ==
    dna_returned =>
        /\ Len(dna.theme_chain) \in 0..3
        /\ Len(dna.theme_chain) = Cardinality(phases_with_theme)
        /\ \A j \in 1..Len(dna.theme_chain) :
              dna.theme_chain[j] = phase_themes[nth_smallest(phases_with_theme, j)][1]

\* a build phase without a theme between two phases that have one, the
\* collapse phase having more than one
C8_witness ==
    /\ dna_returned
    /\ phases_with_theme = {1, 3}
    /\ Len(phase_themes[1]) > 1
    /\ Len(dna.theme_chain) = 2

\* C9: the transformation_hash depends only on the first 50 characters of
\* each phase: text appended after character 50 of a phase, or a character
\* changed after it, leaves the hashed input and the hash as they were.
C9_hash_ignores_text_after_50 ==
    (rehashed /\ edit.pos > 50) => (combined1 = combined0 /\ hash1 = hash0)

\* text appended right after the 50th character of a phase
C9_witness ==
    /\ rehashed
    /\ edit.kind = "append"
    /\ edit.pos = 51
    /\ Len(phase_text(edit.phase)) > 51
    /\ hash1 = hash0

\* C10: a character changed within the first 50 characters of one phase
\* changes the input the hash is computed over, and changes the hash.
C10_hash_changes_with_first_50 ==
    (rehashed /\ edit.kind = "change" /\ edit.pos <= 50) =>
        (combined1 # combined0 /\ hash1 # hash0)

\* the 50th character of a phase changed
C10_witness ==
    /\ rehashed
    /\ edit.kind = "change"
    /\ edit.pos = 50
    /\ Len(hash0) = 12
    /\ hash1 # hash0

\* the decimal digit of n that stands for 10^k
decimal_digit(n, k) == Char("0123456789", ((n \div (10 ^ k)) % 10) + 1)

\* the whole seconds of the timestamp since the Unix epoch, as int() gives them
epoch_seconds ==
    IF timestamp.seconds >= 0 \/ timestamp.microsecond = 0
    THEN timestamp.seconds ELSE timestamp.seconds + 1

\* the last 4 characters of the decimal numeral of the epoch seconds
last_four_of_epoch ==
    IF epoch_seconds >= 1000
    THEN decimal_digit(epoch_seconds, 3) \o decimal_digit(epoch_seconds, 2)
         \o decimal_digit(epoch_seconds, 1) \o decimal_digit(epoch_seconds, 0)
    ELSE IF epoch_seconds >= 100
    THEN decimal_digit(epoch_seconds, 2) \o decimal_digit(epoch_seconds, 1)
         \o decimal_digit(epoch_seconds, 0)
    ELSE IF epoch_seconds >= 10
    THEN decimal_digit(epoch_seconds, 1) \o decimal_digit(epoch_seconds, 0)
    ELSE IF epoch_seconds >= 0 THEN decimal_digit(epoch_seconds, 0)
    ELSE "-" \o decimal_digit(0 - epoch_seconds, 0)

\* t is the first n characters of s, in upper case
is_upper_prefix(t, s, n) ==
    /\ Len(t) = IF Len(s) < n THEN Len(s) ELSE n
    /\ \A i \in 1..Len(t) : Char(t, i) = upper_char(Char(s, i))

\* C11: generate_share_code returns "{prefix}-{time}-{id}": prefix the first
\* 3 characters of the archetype key in upper case, or "WND" when the key is
\* empty; time the last 4 characters of the decimal epoch seconds; id the
\* first 4 characters of the reflection id in upper case.
C11_share_code_components ==
    share_code_returned =>
        \E p \in 0..3 : \E i \in 0..4 :
            LET t == Len(last_four_of_epoch)
            IN  /\ Len(share_code) = p + 1 + t + 1 + i
                /\ IF archetype = "" THEN SubSeq(share_code, 1, p) = "WND"
                   ELSE is_upper_prefix(SubSeq(share_code, 1, p), archetype, 3)
                /\ Char(share_code, p + 1) = "-"
                /\ SubSeq(share_code, p + 2, p + 1 + t) = last_four_of_epoch
                /\ Char(share_code, p + t + 2) = "-"
                /\ is_upper_prefix(SubSeq(share_code, p + t + 3, Len(share_code)),
                                   reflection_id, 4)
                /\ (reflection_id = "abcd1234" /\ archetype = "Phoenix"
                    /\ epoch_seconds = 1700000000) => share_code = "PHO-0000-ABCD"

\* the share code of ("abcd1234", "Phoenix", 1700000000)
C11_witness ==
    /\ share_code_returned
    /\ reflection_id = "abcd1234"
    /\ archetype = "Phoenix"
    /\ timestamp = datetime(1700000000, 0)
    /\ share_code = "PHO-0000-ABCD"

is_letter(c) == \E k \in 1..26 : c = Char("ABCDEFGHIJKLMNOPQRSTUVWXYZ", k)
is_digit(c) == \E k \in 1..10 : c = Char("0123456789", k)

\* C12: every share code is 3 letters, a hyphen, 4 digits of the timestamp,
\* a hyphen and 4 characters of the reflection id.
C12_share_code_shape ==
    share_code_returned =>
        /\ Len(share_code) = 13
        /\ \A k \in 1..3 : is_letter(Char(share_code, k))
        /\ Char(share_code, 4) = "-"
        /\ \A k \in 5..8 : is_digit(Char(share_code, k))
        /\ Char(share_code, 9) = "-"
        /\ is_upper_prefix(SubSeq(share_code, 10, 13), reflection_id, 4)

\* where the whitespace-separated tokens of t start
token_starts(t) ==
    {i \in 1..Len(t) :
        Char(t, i) \notin Whitespace /\ (i = 1 \/ Char(t, i - 1) \in Whitespace)}

\* the token of t that starts at i, in lower case
token_at(t, i) ==
    LET j == CHOOSE j \in i..Len(t) :
                /\ \A k \in i..j : Char(t, k) \notin Whitespace
                /\ j = Len(t) \/ Char(t, j + 1) \in Whitespace
    IN  str_lower(SubSeq(t, i, j))

\* the starts of the tokens that are no stop word and longer than 3
surviving_tokens(t) ==
    {i \in token_starts(t) : token_at(t, i) \notin stop_words /\ Len(token_at(t, i)) > 3}

\* the first three surviving tokens joined by single spaces
first_three_joined(t) ==
    LET surv == surviving_tokens(t)
        tok(j) == token_at(t, nth_smallest(surv, j))
    IN  IF Cardinality(surv) = 1 THEN tok(1)
        ELSE IF Cardinality(surv) = 2 THEN tok(1) \o " " \o tok(2)
        ELSE tok(1) \o " " \o tok(2) \o " " \o tok(3)

\* C16: extract_keywords returns the first 3 tokens of the lower-cased text
\* that are no stop word and longer than 3 characters, in their order, joined
\* by single spaces, and "the unnamed" exactly when there is no such token.
C16_first_three_keywords ==
    keywords_returned =>
        /\ (keyword_text = "the unnamed") <=> (surviving_tokens(text) = {})
        /\ surviving_tokens(text) # {} => keyword_text = first_three_joined(text)

\* a text with a stop word, a token of 3 characters and more than 3 keywords
C16_witness ==
    /\ keywords_returned
    /\ Cardinality(surviving_tokens(text)) > 3
    /\ \E i \in token_starts(text) : token_at(text, i) \in stop_words
    /\ \E i \in token_starts(text) :
          Len(token_at(text, i)) = 3 /\ token_at(text, i) \notin stop_words
    /\ keyword_text # "the unnamed"

\* the first pattern of the list that occurs in the text, else the default
first_pattern_or(t, patterns, default) ==
    LET found == {i \in 1..Len(patterns) : occurs_ignoring_case(patterns[i], t)}
    IN  IF found = {} THEN default ELSE patterns[nth_smallest(found, 1)]

\* the keyword phrase of a text
keyword_phrase(t) ==
    IF surviving_tokens(t) = {} THEN "the unnamed" ELSE first_three_joined(t)

\* C17: each phase matcher returns the first pattern of its list that occurs
\* in its phase text case-insensitively, and its default when none occurs;
\* the phase's summary sentence holds the keyword phrase and the matched word.
C17_phase_matchers ==
    compressed_returned =>
        /\ compressed.Collapse =
              "The dissolution began when " \o keyword_phrase(collapse)
              \o " shattered the illusion of "
              \o first_pattern_or(collapse,
                    <<"identity", "certainty", "control", "belonging", "purpose", "self">>,
                    "stability")
        /\ compressed.Compression =
              "Through " \o keyword_phrase(build) \o ", the fragments crystallized into "
              \o first_pattern_or(build,
                    <<"strength", "wisdom", "resilience", "understanding", "compassion",
                      "power", "clarity">>,
                    "new foundations")
        /\ compressed.Convergence =
              "Now standing as " \o keyword_phrase(now) \o ", embodying the truth of "
              \o first_pattern_or(now,
                    <<"authenticity", "wholeness", "integration", "transformation",
                      "truth", "freedom">>,
                    "irreducible essence")

\* a collapse text with "Control" before "identity", which is listed first
C17_witness ==
    /\ compressed_returned
    /\ str_in("Control", collapse)
    /\ first_index("Control", collapse) < first_index("identity", collapse)
    /\ str_in("illusion of identity", compressed.Collapse)

HexChars == {Char("0123456789abcdef", k) : k \in 1..16}

\* C13: on empty texts, texts without a match and unknown archetype keys the
\* functions return complete results built from the defaults: the lead-ins
\* with an empty text, "the unnamed" and the matchers' defaults, the first
\* element of each theme list, an empty theme chain, the placeholder section.
C13_defaults_for_edge_cases ==
    /\ narrative_returned =>
          /\ Len(sections) >= 3
          /\ str_in("[ COLLAPSE ]", narrative) /\ str_in("[ CONVERGENCE ]", narrative)
          /\ collapse = "" =>
                sections[1] = "[ COLLAPSE ]\nIn the depths of dissolution, you faced the void:\n"
          /\ now = "\n" => sections[3] = "\n[ CONVERGENCE ]\nNow, you stand transformed:\n"
          /\ archetype = "unicorn" =>
                sections[4] = "\n[ ARCHETYPE ]\nYour archetype is still crystallizing in the cosmic forge"
    /\ compressed_returned =>
          /\ {"Collapse", "Compression", "Convergence"} \subseteq DOMAIN compressed
          /\ collapse = "" =>
                compressed.Collapse =
                   "The dissolution began when the unnamed shattered the illusion of stability"
          /\ build = " nothing new " =>
                compressed.Compression =
                   "Through nothing, the fragments crystallized into new foundations"
          /\ now = "\n" =>
                compressed.Convergence =
                   "Now standing as the unnamed, embodying the truth of irreducible essence"
          /\ archetype \in {"", "unicorn"} => "Archetypal_Pattern" \notin DOMAIN compressed
    /\ dna_returned =>
          /\ DOMAIN dna = {"collapse_root", "emergent_trait", "final_state", "archetype",
                           "theme_chain", "transformation_hash"}
          /\ dna.collapse_root \in {"control", "identity", "trust", "purpose", "belonging", "certainty"}
          /\ dna.emergent_trait \in {"resilience", "wisdom", "compassion", "strength", "clarity", "freedom"}
          /\ dna.final_state \in {"authentic", "integrated", "empowered", "aligned", "whole", "awakened"}
          /\ collapse = "" => dna.collapse_root = "control"
          /\ build = " nothing new " => dna.emergent_trait = "resilience"
          /\ now = "\n" => dna.final_state = "authentic"
          /\ (collapse = "" /\ build = " nothing new " /\ now = "\n") => dna.theme_chain = << >>
          /\ Len(dna.transformation_hash) = 12
          /\ \A k \in 1..12 : Char(dna.transformation_hash, k) \in HexChars
    /\ themes_returned => (text \in {"", "\n", " nothing new "} => themes = << >>)
    /\ keywords_returned =>
          /\ text \in {"", "\n"} => keyword_text = "the unnamed"
          /\ text = " nothing new " => keyword_text = "nothing"

\* every function of the chain has returned on an empty collapse, a build
\* and a now without any match, and an unknown archetype
C13_witness ==
    /\ dna_returned
    /\ collapse = ""
    /\ build = " nothing new "
    /\ now = "\n"
    /\ archetype = "unicorn"
    /\ dna.theme_chain = << >>

\* the first 50 characters of each of three texts, one after the other
concatenated_prefixes(texts) ==
    SubSeq(texts[1], 1, IF Len(texts[1]) > 50 THEN 50 ELSE Len(texts[1]))
    \o SubSeq(texts[2], 1, IF Len(texts[2]) > 50 THEN 50 ELSE Len(texts[2]))
    \o SubSeq(texts[3], 1, IF Len(texts[3]) > 50 THEN 50 ELSE Len(texts[3]))

\* C20: the hash records no phase boundaries: two triples of phases that
\* differ but whose 50-character prefixes concatenate to the same string
\* have the same transformation_hash.
C20_hash_ignores_phase_boundaries ==
    ( /\ rehashed
      /\ edit.kind = "shift"
      /\ edit.before # <<collapse, build, now>>
      /\ concatenated_prefixes(edit.before) = concatenated_prefixes(<<collapse, build, now>>) )
    => hash1 = hash0

\* collapse "abc" and an empty build against collapse "ab" and build "c"
C20_witness ==
    /\ rehashed
    /\ edit.kind = "shift"
    /\ edit.before[1] = "abc" /\ edit.before[2] = ""
    /\ collapse = "ab" /\ build = "c" /\ now = edit.before[3]
    /\ hash1 = hash0

\* the invocations of generate_narrative and generate_reflexion_dna made so far
deterministic_calls ==
    {k \in 1..Len(log) : log[k].fn \in {"generate_narrative", "generate_reflexion_dna"}}

composed == {r \in Requests : requests[r].pc # "start"}
finished == {r \in Requests : requests[r].pc = "done"}

C18_one_entry_per_submission ==
    /\ \A r1 \in Requests : \A r2 \in Requests \ {r1} :
          (requests[r1].logged /\ requests[r2].logged)
             => requests[r1].entry_number # requests[r2].entry_number
    /\ \A r \in Requests :
          requests[r].logged =>
             /\ log_filepath(requests[r].entry_number) \in DOMAIN archive
             /\ archive[log_filepath(requests[r].entry_number)].reflection_id
                   = requests[r].reflection_id

\* the narrative of request r has the ARCHETYPE section with a description
\* and a quote of the catalog
has_named_section(r) ==
    \E k \in DOMAIN ArchetypeCatalog :
        /\ str_in("[ ARCHETYPE ]\nYou embody the ", requests[r].narrative)
        /\ str_in(ArchetypeCatalog[k].description, requests[r].narrative)
        /\ str_in(ArchetypeCatalog[k].quote, requests[r].narrative)

\* C19: a submission's archetype form value is stripped and lower-cased once
\* and all four functions get that value; so its narrative has the named
\* ARCHETYPE section exactly when its compressed summary has the key
\* Archetypal_Pattern.
C19_one_normalized_archetype ==
    \A r \in finished :
        LET req == requests[r]
        IN  /\ same_ignoring_case(req.archetype, str_strip(req.form))
            /\ is_trim_of(str_strip(req.form), req.form)
            /\ \A i \in 1..Len(req.archetype) :
                  Char(req.archetype, i) = lower_char(Char(req.archetype, i))
            /\ req.reflexion_dna.archetype =
                  IF req.archetype = "" THEN "wanderer" ELSE req.archetype
            /\ SubSeq(req.share_code, 1, 3) =
                  IF req.archetype = "" THEN "WND"
                  ELSE str_upper(SubSeq(req.archetype, 1, 3))
            /\ has_named_section(r) <=> ("Archetypal_Pattern" \in DOMAIN req.compressed_summary)
            /\ has_named_section(r) <=> (req.archetype \in DOMAIN ArchetypeCatalog)

\* a submission of " Phoenix": named section and Archetypal_Pattern
C19_witness ==
    \E r \in finished :
        /\ requests[r].form = " Phoenix"
        /\ requests[r].archetype = "phoenix"
        /\ has_named_section(r)
        /\ "Archetypal_Pattern" \in DOMAIN requests[r].compressed_summary

\* the submissions whose row is in the table under the id rid
saved_as(rid) == {r \in composed : requests[r].reflection_id = rid}

\* C21: the DNA /api/reflexion-dna/<reflection_id> returns for a saved
\* reflection, generated again from the stored row, is the DNA generated and
\* logged when it was submitted, whatever other submissions came between; for
\* an id with no stored row the answer is the not-found error and no DNA is
\* generated.
C21_lookup_returns_submitted_dna ==
    [][lookup' # lookup =>
          IF saved_as(lookup'.id) # {}
          THEN /\ lookup'.status = 200
               /\ \A r \in saved_as(lookup'.id) :
                     lookup'.body = requests[r].reflexion_dna
               /\ \A f \in DOMAIN archive :
                     archive[f].reflection_id = lookup'.id
                        => archive[f].reflexion_dna = lookup'.body
          ELSE /\ lookup'.status = 404
               /\ ~lookup'.computed
               /\ lookup'.body = [error |-> "Reflection not found"]]_vars

\* the first submission, of " Phoenix", looked up after it was logged and
\* after another submission was saved: the DNA of its archive entry
C21_witness ==
    /\ lookup.id = Uuids[1]
    /\ lookup.status = 200
    /\ requests[1].form = " Phoenix"
    /\ requests[1].logged
    /\ \E r \in composed \ {1} : requests[r].reflection_id # lookup.id
    /\ lookup.body = requests[1].reflexion_dna
    /\ lookup.body.archetype = "phoenix"
    /\ \E f \in DOMAIN archive :
          archive[f].reflection_id = lookup.id /\ archive[f].reflexion_dna = lookup.body

\* an id looked up that has no row: the error
C21_witness_not_found ==
    /\ lookup.id = "00000000"
    /\ lookup.status = 404
    /\ db # {}

\* the row of the table saved for request r
has_row(r) ==
    \E stored \in db :
        /\ stored.id = requests[r].reflection_id
        /\ stored.narrative = requests[r].narrative

\* C22: /mirror saves the row before it writes the archive entry and before
\* it sends an email; a failed write and a failed send are caught, the row
\* stays and the result page is returned all the same; an email is attempted
\* only for a request that gave a non-empty address.
C22_row_first_failures_caught ==
    /\ \A f \in DOMAIN archive :
          \E stored \in db : stored.id = archive[f].reflection_id
    /\ \A r \in Requests :
          LET req == requests[r]
          IN  /\ (req.logged \/ req.emailed # "not attempted") => has_row(r)
              /\ req.pc = "done" =>
                    /\ has_row(r)
                    /\ req.page # None
                    /\ req.page.reflection = req.narrative
                    /\ req.page.reflection_id = req.reflection_id
              /\ req.emailed # "not attempted" =>
                    \E k \in 1..Len(req.email_form) :
                        Char(req.email_form, k) \notin Whitespace

\* a request whose archive write and whose email both failed: its row is
\* there and its page was returned
C22_witness ==
    \E r \in finished :
        /\ ~requests[r].logged
        /\ requests[r].emailed = "failed"
        /\ has_row(r)
        /\ requests[r].page # None
        /\ requests[r].page.reflection_id = requests[r].reflection_id

====
